---- MODULE Spec2Model ----
(***************************************************************************)
(* Model of mut-binary-heap: src/src/binary_heap.rs.                       *)
(*                                                                         *)
(* BinaryHeap<K, T, C> is a binary heap stored in a vector `data` of       *)
(* (key, value) pairs with a HashMap `keys` from key to storage position   *)
(* and a comparator `cmp`.                                                 *)
(*                                                                         *)
(* Conventions                                                             *)
(*   - storage positions are 0-based as in the source; the TLA+ sequence   *)
(*     `data` is 1-based, so position p is data[p + 1] (see At);           *)
(*   - a key is a pair <<id, tag>>: Hash and Eq look at `id` only, `tag`   *)
(*     is the part of a key object that Eq does not see ("types that can   *)
(*     be == without being identical", doc of push).  The HashMap is       *)
(*     modelled as a function from ids to positions;                       *)
(*   - an Option is a sequence: None is << >>, Some(x) is << x >>;         *)
(*   - a panic ends the run: `status` leaves "ok" and nothing follows.    *)
(***************************************************************************)
EXTENDS Integers, Sequences, FiniteSets, TLC

(***************************************************************************)
(* Bounds of the model.                                                    *)
(***************************************************************************)
NumKeys == 3
MaxTag == 1
MaxVal == 1
MaxLen == 3
DeepLen == 7
PushPopLen == 5
TailLen == 6
LoopLen == 5
SmallLen == 66
Around == 2
CrossoverLen == 2048

KeyIds == 0 .. (NumKeys - 1)
Tags == 0 .. MaxTag
Values == 0 .. MaxVal
Keys == KeyIds \X Tags
Comparators == {"max", "min"}

None == << >>
Some(x) == << x >>

Id(k) == k[1]
Tag(k) == k[2]
KeyOf(e) == e[1]
ValOf(e) == e[2]
At(d, p) == d[p + 1]
SetAt(d, p, e) == [d EXCEPT ![p + 1] = e]

(***************************************************************************)
(* Comparators: MaxComparator is a.cmp(b), MinComparator is b.cmp(a).      *)
(* A value is an integer; a negative integer -1 - v is the value v whose   *)
(* Ord::cmp panics (PanicOrd(v, true) of the panic_safe test), so that a   *)
(* comparison that involves it aborts: compare then gives "Panic".         *)
(***************************************************************************)
Poisoned(v) == v < 0
Poison(v) == -1 - v

Ord(a, b) == IF a < b THEN "Less" ELSE IF a = b THEN "Equal" ELSE "Greater"

compare(c, a, b) ==
    IF Poisoned(a) \/ Poisoned(b) THEN "Panic"
    ELSE IF c = "max" THEN Ord(a, b) ELSE Ord(b, a)

\* the comparison unwinds instead of returning
Panics(c, a, b) == compare(c, a, b) = "Panic"

compares_le(c, a, b) == compare(c, a, b) # "Greater"
compares_ge(c, a, b) == compare(c, a, b) # "Less"
compares_lt(c, a, b) == compare(c, a, b) = "Less"

(***************************************************************************)
(* HashMap<K, usize> as a function from ids to positions.                  *)
(***************************************************************************)
EmptyMap == [i \in {} |-> 0]
contains(m, k) == Id(k) \in DOMAIN m
insert(m, k, p) == [i \in DOMAIN m \cup {Id(k)} |-> IF i = Id(k) THEN p ELSE m[i]]
remove_key(m, k) == [i \in DOMAIN m \ {Id(k)} |-> m[i]]

(***************************************************************************)
(* Hole: the element at `pos` is read out of the slice (the slot keeps its *)
(* old bits), the hole moves, and drop writes the element back.            *)
(* A hole is [data, keys, elt, pos, panic]; `panic` says that the scope of *)
(* the hole is being unwound (a comparison or an expect panicked).         *)
(***************************************************************************)
HoleNew(d, ks, pos) ==
    [data |-> d, keys |-> ks, elt |-> At(d, pos), pos |-> pos, panic |-> FALSE]

\* HoleMoveTo with the index update of the moved element left out
HoleMoveTo_stale_index(h, target) ==
    LET te == At(h.data, target) IN
    IF ~contains(h.keys, KeyOf(te))
    THEN [h EXCEPT !.panic = TRUE]
    ELSE [h EXCEPT !.data = SetAt(h.data, h.pos, te),
                   !.pos = target]

\* keys.get_mut(&target.0).expect(..) = self.pos; copy target into the hole
HoleMoveTo(h, target) ==
    LET te == At(h.data, target) IN
    IF ~contains(h.keys, KeyOf(te))
    THEN [h EXCEPT !.panic = TRUE]
    ELSE [h EXCEPT !.keys = insert(h.keys, KeyOf(te), h.pos),
                   !.data = SetAt(h.data, h.pos, te),
                   !.pos = target]

\* Drop for Hole with the index update of the element left out
HoleDrop_no_index(h) ==
    LET d2 == SetAt(h.data, h.pos, h.elt) IN
    IF ~contains(h.keys, KeyOf(h.elt))
    THEN [data |-> d2, keys |-> h.keys, pos |-> h.pos, panic |-> TRUE]
    ELSE [data |-> d2, keys |-> h.keys, pos |-> h.pos, panic |-> h.panic]

\* Drop for Hole: fill the hole, then keys.get_mut(key).expect(..) = pos.
\* It also runs when a panic unwinds through the hole's scope.
HoleDrop(h) ==
    LET d2 == SetAt(h.data, h.pos, h.elt) IN
    IF ~contains(h.keys, KeyOf(h.elt))
    THEN [data |-> d2, keys |-> h.keys, pos |-> h.pos, panic |-> TRUE]
    ELSE [data |-> d2, keys |-> insert(h.keys, KeyOf(h.elt), h.pos),
          pos |-> h.pos, panic |-> h.panic]

(***************************************************************************)
(* The repair primitives.  Each returns [data, keys, pos, panic].          *)
(***************************************************************************)
\* sift_up with compares_lt in the place of compares_le: an element equal to
\* its parent moves above it
RECURSIVE SiftUpLoop_on_equal(_, _, _)
SiftUpLoop_on_equal(c, h, start) ==
    IF h.pos > start
    THEN LET parent == (h.pos - 1) \div 2 IN
         IF Panics(c, ValOf(h.elt), ValOf(At(h.data, parent)))
         THEN [h EXCEPT !.panic = TRUE]
         ELSE IF compares_lt(c, ValOf(h.elt), ValOf(At(h.data, parent)))
         THEN h
         ELSE LET h2 == HoleMoveTo(h, parent) IN
              IF h2.panic THEN h2 ELSE SiftUpLoop_on_equal(c, h2, start)
    ELSE h

sift_up_on_equal(c, d, ks, start, pos) ==
    HoleDrop(SiftUpLoop_on_equal(c, HoleNew(d, ks, pos), start))

RECURSIVE SiftUpLoop(_, _, _)
SiftUpLoop(c, h, start) ==
    IF h.pos > start
    THEN LET parent == (h.pos - 1) \div 2 IN
         IF Panics(c, ValOf(h.elt), ValOf(At(h.data, parent)))
         THEN [h EXCEPT !.panic = TRUE]
         ELSE IF compares_le(c, ValOf(h.elt), ValOf(At(h.data, parent)))
         THEN h
         ELSE LET h2 == HoleMoveTo(h, parent) IN
              IF h2.panic THEN h2 ELSE SiftUpLoop(c, h2, start)
    ELSE h

sift_up(c, d, ks, start, pos) == HoleDrop(SiftUpLoop(c, HoleNew(d, ks, pos), start))

SatSub(a, b) == IF a >= b THEN a - b ELSE 0

\* the child chosen with compares_lt in the place of compares_le: the left
\* child when the two compare equal
GreaterChild_left(c, h, child) ==
    IF compares_lt(c, ValOf(At(h.data, child)), ValOf(At(h.data, child + 1)))
    THEN child + 1
    ELSE child

\* the child the loop looks at: child += compares_le(data[child], data[child+1])
GreaterChild(c, h, child) ==
    IF compares_le(c, ValOf(At(h.data, child)), ValOf(At(h.data, child + 1)))
    THEN child + 1
    ELSE child

RECURSIVE SiftDownRangeLoop(_, _, _)
SiftDownRangeLoop(c, h, end) ==
    LET child == 2 * h.pos + 1 IN
    IF child <= SatSub(end, 2)
    THEN IF Panics(c, ValOf(At(h.data, child)), ValOf(At(h.data, child + 1)))
         THEN [h EXCEPT !.panic = TRUE]
         ELSE LET ch == GreaterChild(c, h, child) IN
              IF Panics(c, ValOf(h.elt), ValOf(At(h.data, ch)))
              THEN [h EXCEPT !.panic = TRUE]
              ELSE IF compares_ge(c, ValOf(h.elt), ValOf(At(h.data, ch)))
              THEN h
              ELSE LET h2 == HoleMoveTo(h, ch) IN
                   IF h2.panic THEN h2 ELSE SiftDownRangeLoop(c, h2, end)
    ELSE IF child = end - 1
         THEN IF Panics(c, ValOf(h.elt), ValOf(At(h.data, child)))
              THEN [h EXCEPT !.panic = TRUE]
              ELSE IF compares_lt(c, ValOf(h.elt), ValOf(At(h.data, child)))
              THEN HoleMoveTo(h, child)
              ELSE h
         ELSE h

sift_down_range(c, d, ks, pos, end) ==
    HoleDrop(SiftDownRangeLoop(c, HoleNew(d, ks, pos), end))

sift_down(c, d, ks, pos) == sift_down_range(c, d, ks, pos, Len(d))

RECURSIVE SiftDownToBottomLoop(_, _, _)
SiftDownToBottomLoop(c, h, end) ==
    LET child == 2 * h.pos + 1 IN
    IF child <= SatSub(end, 2)
    THEN IF Panics(c, ValOf(At(h.data, child)), ValOf(At(h.data, child + 1)))
         THEN [h EXCEPT !.panic = TRUE]
         ELSE LET h2 == HoleMoveTo(h, GreaterChild(c, h, child)) IN
              IF h2.panic THEN h2 ELSE SiftDownToBottomLoop(c, h2, end)
    ELSE IF child = end - 1
         THEN HoleMoveTo(h, child)
         ELSE h

sift_down_to_bottom(c, d, ks, pos) ==
    LET r == HoleDrop(SiftDownToBottomLoop(c, HoleNew(d, ks, pos), Len(d))) IN
    IF r.panic THEN r ELSE sift_up(c, r.data, r.keys, pos, r.pos)

RECURSIVE RebuildLoop(_, _, _, _)
RebuildLoop(c, d, ks, n) ==
    IF n > 0
    THEN LET r == sift_down(c, d, ks, n - 1) IN
         IF r.panic THEN r ELSE RebuildLoop(c, r.data, r.keys, n - 1)
    ELSE [data |-> d, keys |-> ks, pos |-> 0, panic |-> FALSE]

\* rebuild with the positions taken in increasing order, 0 up to len/2 - 1
RECURSIVE RebuildLoop_from_top(_, _, _, _)
RebuildLoop_from_top(c, d, ks, n) ==
    IF n < Len(d) \div 2
    THEN LET r == sift_down(c, d, ks, n) IN
         IF r.panic THEN r ELSE RebuildLoop_from_top(c, r.data, r.keys, n + 1)
    ELSE [data |-> d, keys |-> ks, pos |-> 0, panic |-> FALSE]

rebuild_from_top(c, d, ks) == RebuildLoop_from_top(c, d, ks, 0)

rebuild(c, d, ks) == RebuildLoop(c, d, ks, Len(d) \div 2)

(***************************************************************************)
(* Public operations as functions of the heap (cmp c, data d, keys ks).    *)
(* Each returns [data, keys, ret, st]; st is "ok", "panic", or "oob" when  *)
(* a repair primitive is entered with pos >= len (its safety contract is   *)
(* broken: a debug build panics on debug_assert, a release build has       *)
(* undefined behaviour).                                                   *)
(***************************************************************************)
Result(d, ks, ret, st) == [data |-> d, keys |-> ks, ret |-> ret, st |-> st]

St(r) == IF r.panic THEN "panic" ELSE "ok"

\* update that returns silently when the key is not in the index
update_silent(c, d, ks, key) ==
    IF ~contains(ks, key) \/ ks[Id(key)] >= Len(d)
    THEN Result(d, ks, None, "ok")
    ELSE LET pos == ks[Id(key)]
             up == sift_up(c, d, ks, 0, pos) IN
         IF up.panic \/ up.pos # pos
         THEN Result(up.data, up.keys, None, St(up))
         ELSE LET down == sift_down(c, up.data, up.keys, pos) IN
              Result(down.data, down.keys, None, St(down))

update(c, d, ks, key) ==
    IF ~contains(ks, key)
    THEN Result(d, ks, None, "panic")
    ELSE LET pos == ks[Id(key)] IN
         IF pos >= Len(d)
         THEN Result(d, ks, None, "oob")
         ELSE LET up == sift_up(c, d, ks, 0, pos) IN
              IF up.panic \/ up.pos # pos
              THEN Result(up.data, up.keys, None, St(up))
              ELSE LET down == sift_down(c, up.data, up.keys, pos) IN
                   Result(down.data, down.keys, None, St(down))

push(c, d, ks, key, item) ==
    IF contains(ks, key)
    THEN LET pos == ks[Id(key)] IN
         IF pos >= Len(d)
         THEN Result(d, ks, None, "panic")
         ELSE LET old == At(d, pos)
                  u == update(c, SetAt(d, pos, <<KeyOf(old), item>>), ks, key)
              IN  Result(u.data, u.keys,
                         IF u.st = "ok" THEN Some(ValOf(old)) ELSE None, u.st)
    ELSE LET old_len == Len(d)
             r == sift_up(c, Append(d, <<key, item>>), insert(ks, key, old_len),
                          0, old_len)
         IN  Result(r.data, r.keys, None, St(r))

Front(d) == SubSeq(d, 1, Len(d) - 1)

pop_with_key(c, d, ks) ==
    IF Len(d) = 0
    THEN Result(d, ks, None, "ok")
    ELSE LET last == d[Len(d)]
             d1 == Front(d)
         IN  IF Len(d1) = 0
             THEN Result(d1, remove_key(ks, KeyOf(last)), Some(last), "ok")
             ELSE LET r == sift_down_to_bottom(c, SetAt(d1, 0, last), ks, 0) IN
                  IF r.panic
                  THEN Result(r.data, r.keys, None, "panic")
                  ELSE Result(r.data, remove_key(r.keys, KeyOf(At(d1, 0))),
                              Some(At(d1, 0)), "ok")

\* remove that takes the last entry out without looking the key up
remove_unchecked(c, d, ks, key) ==
    IF Len(d) = 0
    THEN Result(d, ks, None, "ok")
    ELSE Result(Front(d), remove_key(ks, KeyOf(d[Len(d)])), Some(d[Len(d)]), "ok")

remove(c, d, ks, key) ==
    IF ~contains(ks, key)
    THEN Result(d, ks, None, "ok")
    ELSE LET pos == ks[Id(key)] IN
         IF Len(d) = 0
         THEN Result(d, ks, None, "ok")
         ELSE LET last == d[Len(d)]
                  d1 == Front(d)
              IN  IF Len(d1) > 0 /\ pos < Len(d1)
                  THEN LET r == sift_down_to_bottom(c, SetAt(d1, pos, last), ks, pos) IN
                       IF r.panic
                       THEN Result(r.data, r.keys, None, "panic")
                       ELSE Result(r.data, remove_key(r.keys, KeyOf(At(d1, pos))),
                                   Some(At(d1, pos)), "ok")
                  ELSE Result(d1, remove_key(ks, KeyOf(last)), Some(last), "ok")

\* clear() is drain() dropped at once: self.data.drain(..); keys is not touched
clear(c, d, ks) == Result(<< >>, ks, None, "ok")

RECURSIVE FromIterLoop(_, _, _, _)
FromIterLoop(input, i, d, ks) ==
    IF i > Len(input)
    THEN [data |-> d, keys |-> ks]
    ELSE FromIterLoop(input, i + 1, Append(d, input[i]),
                      insert(ks, KeyOf(input[i]), Len(d)))

from_iter(c, input) ==
    LET h == FromIterLoop(input, 1, << >>, EmptyMap)
        r == rebuild(c, h.data, h.keys)
    IN  Result(r.data, r.keys, None, St(r))

(***************************************************************************)
(* Scoped handles.  `w` is what the caller does with the handle before it  *)
(* is released: None leaves the value alone, Some(v) writes v through      *)
(* DerefMut.  What a handle operation returns is modelled as               *)
(* Some(position the handle refers to).                                    *)
(***************************************************************************)
\* get_mut copies keys[key] into RefMut.pos; DerefMut is &mut data[pos].1;
\* Drop for RefMut is update(key).  When pos is outside the storage the write
\* panics on the index and the drop that runs while unwinding enters sift_up
\* outside the storage; without a write the drop does so directly.
get_mut(c, d, ks, key, w) ==
    IF ~contains(ks, key)
    THEN Result(d, ks, None, "ok")
    ELSE LET pos == ks[Id(key)] IN
         IF pos >= Len(d)
         THEN Result(d, ks, None, "oob")
         ELSE LET d1 == IF w = None THEN d
                        ELSE SetAt(d, pos, <<KeyOf(At(d, pos)), w[1]>>)
                  u == update(c, d1, ks, key)
              IN  Result(u.data, u.keys, Some(pos), u.st)

\* peek_mut: None on an empty heap; deref_mut sets `sift`, and Drop for
\* PeekMut runs sift_down(0) only when `sift` is set
peek_mut(c, d, ks, w) ==
    IF Len(d) = 0
    THEN Result(d, ks, None, "ok")
    ELSE IF w = None
         THEN Result(d, ks, Some(0), "ok")
         ELSE LET r == sift_down(c, SetAt(d, 0, <<KeyOf(At(d, 0)), w[1]>>), ks, 0) IN
              Result(r.data, r.keys, Some(0), St(r))

\* PeekMut::pop / PeekMut::pop_with_key on the handle of peek_mut, after the
\* caller wrote w (or nothing) through it: heap.pop_with_key().unwrap(), then
\* sift = false, so Drop for PeekMut does nothing.  `ret` is the pair, or the
\* value alone for pop.
peek_mut_pop(c, d, ks, w, kind) ==
    IF Len(d) = 0
    THEN Result(d, ks, None, "ok")
    ELSE LET d1 == IF w = None THEN d ELSE SetAt(d, 0, <<KeyOf(At(d, 0)), w[1]>>)
             r == pop_with_key(c, d1, ks)
         IN  IF r.st # "ok" \/ kind = "pop_with_key" THEN r
             ELSE [r EXCEPT !.ret = Some(ValOf(r.ret[1]))]

\* peek_mut, then PeekMut::key_value_mut: `sift` is set and the caller holds
\* (&mut K, &mut T) of data[0]; it writes the key nk and the value w (or
\* leaves either alone); Drop for PeekMut runs sift_down(0)
peek_mut_key_value_mut(c, d, ks, nk, w) ==
    IF Len(d) = 0
    THEN Result(d, ks, None, "ok")
    ELSE LET k1 == IF nk = None THEN KeyOf(At(d, 0)) ELSE nk[1]
             v1 == IF w = None THEN ValOf(At(d, 0)) ELSE w[1]
             r == sift_down(c, SetAt(d, 0, <<k1, v1>>), ks, 0)
         IN  Result(r.data, r.keys, Some(0), St(r))

(***************************************************************************)
(* replace_cmp(cmp) is replace_cmp_raw(cmp, true): the comparator is       *)
(* replaced, then a non-empty heap is rebuilt under it.                    *)
(***************************************************************************)
replace_cmp(c, d, ks) ==
    IF Len(d) = 0
    THEN Result(d, ks, None, "ok")
    ELSE LET r == rebuild(c, d, ks) IN Result(r.data, r.keys, None, St(r))

(***************************************************************************)
(* drain(): self.data.drain(..) wrapped in Drain.  The caller takes the    *)
(* first n entries with next() and releases the iterator, which drops the  *)
(* rest; `ret` is what next() yielded.  keys is not touched.               *)
(***************************************************************************)
drain(c, d, ks, n) == Result(<< >>, ks, SubSeq(d, 1, n), "ok")

(***************************************************************************)
(* rebuild_tail and append.                                                *)
(***************************************************************************)
\* (usize::BITS - x.leading_zeros() - 1) as usize, for x >= 1
RECURSIVE log2_fast(_)
log2_fast(x) == IF x <= 1 THEN 0 ELSE 1 + log2_fast(x \div 2)

\* the heuristic with <= in the place of < in its two comparisons
better_to_rebuild_le(length, start) ==
    LET tail_len == length - start IN
    IF start < tail_len THEN TRUE
    ELSE IF length <= 2048 THEN 2 * length <= tail_len * log2_fast(start)
    ELSE 2 * length <= tail_len * 11

better_to_rebuild(length, start) ==
    LET tail_len == length - start IN
    IF start < tail_len THEN TRUE
    ELSE IF length <= 2048 THEN 2 * length < tail_len * log2_fast(start)
    ELSE 2 * length < tail_len * 11

\* the argument log2_fast is called with while better_to_rebuild is computed,
\* None when it is not called
log2_fast_argument(length, start) ==
    LET tail_len == length - start IN
    IF start < tail_len THEN None
    ELSE IF length <= 2048 THEN Some(start)
    ELSE None

\* what rebuild_tail(start) does on a storage of that length
rebuild_tail_strategy(length, start) ==
    IF start = length THEN "return"
    ELSE IF better_to_rebuild(length, start) THEN "rebuild"
    ELSE "sift_up"

\* the loop with sift_up(i, i) in the place of sift_up(0, i): no entry of the
\* tail can rise
RECURSIVE SiftUpTail_no_rise(_, _, _, _)
SiftUpTail_no_rise(c, d, ks, i) ==
    IF i >= Len(d)
    THEN [data |-> d, keys |-> ks, pos |-> 0, panic |-> FALSE]
    ELSE LET r == sift_up(c, d, ks, i, i) IN
         IF r.panic THEN r ELSE SiftUpTail_no_rise(c, r.data, r.keys, i + 1)

RECURSIVE SiftUpTail(_, _, _, _)
SiftUpTail(c, d, ks, i) ==
    IF i >= Len(d)
    THEN [data |-> d, keys |-> ks, pos |-> 0, panic |-> FALSE]
    ELSE LET r == sift_up(c, d, ks, 0, i) IN
         IF r.panic THEN r ELSE SiftUpTail(c, r.data, r.keys, i + 1)

rebuild_tail(c, d, ks, start) ==
    LET how == rebuild_tail_strategy(Len(d), start) IN
    IF how = "return"
    THEN [data |-> d, keys |-> ks, pos |-> 0, panic |-> FALSE]
    ELSE IF how = "rebuild"
         THEN rebuild(c, d, ks)
         ELSE SiftUpTail(c, d, ks, start)

Heap(c, d, ks) == [data |-> d, keys |-> ks, cmp |-> c]

\* a.append(b): swap(self, other) exchanges the whole structs (data, keys and
\* cmp) when self is the shorter one; self.data.append(&mut other.data) moves
\* the entries only; rebuild_tail repairs.  Returns both heaps.
append(a, b) ==
    LET swapped == Len(a.data) < Len(b.data)
        self == IF swapped THEN b ELSE a
        other == IF swapped THEN a ELSE b
        start == Len(self.data)
        r == rebuild_tail(self.cmp, self.data \o other.data, self.keys, start)
    IN  [self |-> Heap(self.cmp, r.data, r.keys),
         other |-> Heap(other.cmp, << >>, other.keys),
         st |-> St(r)]

(***************************************************************************)
(* Read-only operations.                                                   *)
(***************************************************************************)
\* the outcome of a read that panics (told from an Option by its length)
IndexPanic == <<"panic", "index out of bounds">>

len(d) == Len(d)
is_empty(d) == len(d) = 0
peek_with_key(d) == IF Len(d) = 0 THEN None ELSE Some(At(d, 0))
peek(d) == IF Len(d) = 0 THEN None ELSE Some(ValOf(At(d, 0)))
\* pop() is pop_with_key().map(|kv| kv.1)
pop(c, d, ks) ==
    LET r == pop_with_key(c, d, ks) IN
    [r EXCEPT !.ret = IF r.ret = None THEN None ELSE Some(ValOf(r.ret[1]))]
contains_key(ks, key) == contains(ks, key)
\* self.keys.get(key).map(|index| &self.data[*index].1): the index panics
\* when the position is outside the storage
get(d, ks, key) ==
    IF ~contains(ks, key) THEN None
    ELSE IF ks[Id(key)] >= Len(d) THEN IndexPanic
    ELSE Some(ValOf(At(d, ks[Id(key)])))

(***************************************************************************)
(* Iterators.                                                              *)
(*   iter, iter_keys, iter_values and `&heap` wrap self.data.iter(): a     *)
(*   cursor i over the storage; next() yields the entry at i (its key, its *)
(*   value) and advances.  into_iter wraps self.data.into_iter(): the      *)
(*   iterator owns the storage and next() takes its first entry.           *)
(*   into_iter_sorted wraps the heap itself and next() is pop().           *)
(*   The mutable iterator (`&mut heap`) is a cursor as well; its drop      *)
(*   calls rebuild().                                                      *)
(***************************************************************************)
\* RefIter::next_back in the place of next: the entries come from the back
iter_next_back(d, i) ==
    IF i < Len(d) THEN [item |-> Some(At(d, Len(d) - 1 - i)), i |-> i + 1]
    ELSE [item |-> None, i |-> i]

\* RefIter::next, as [item, i]
iter_next(d, i) ==
    IF i < Len(d) THEN [item |-> Some(At(d, i)), i |-> i + 1]
    ELSE [item |-> None, i |-> i]

\* RefKeys::next and RefValues::next map the entry
iter_keys_next(d, i) ==
    LET r == iter_next(d, i) IN
    [r EXCEPT !.item = IF r.item = None THEN None ELSE Some(KeyOf(r.item[1]))]

iter_values_next(d, i) ==
    LET r == iter_next(d, i) IN
    [r EXCEPT !.item = IF r.item = None THEN None ELSE Some(ValOf(r.item[1]))]

\* slice::Iter::size_hint with the cursor at i
iter_size_hint(d, i) == Len(d) - i

\* IntoIter::next on the storage the iterator owns, as [item, data]
into_iter_next(d) ==
    IF Len(d) = 0 THEN [item |-> None, data |-> d]
    ELSE [item |-> Some(Head(d)), data |-> Tail(d)]

into_iter_size_hint(d) == Len(d)

\* IntoIterSorted::next is self.inner.pop(); size_hint is self.inner.len()
into_iter_sorted_next(c, d, ks) == pop(c, d, ks)

into_iter_sorted_size_hint(d) == len(d)

\* MutRefIter::next at cursor i, the caller writing w through the &mut T it
\* is given; nothing is repaired
iter_mut_next(d, i, w) ==
    IF i < Len(d)
    THEN [item |-> Some(At(d, i)), i |-> i + 1,
          data |-> IF w = None THEN d ELSE SetAt(d, i, <<KeyOf(At(d, i)), w[1]>>)]
    ELSE [item |-> None, i |-> i, data |-> d]

\* Drop for MutRefIter: heap.rebuild()
iter_mut_drop(c, d, ks) ==
    LET r == rebuild(c, d, ks) IN Result(r.data, r.keys, None, St(r))

(***************************************************************************)
(* Serialization: the struct is written as the three fields data, cmp and  *)
(* keys (the map as its set of entries) and read back field by field into  *)
(* BinaryHeap { data, cmp, keys }.                                         *)
(***************************************************************************)
serialize(c, d, ks) ==
    [data |-> d, cmp |-> c, keys |-> {<<i, ks[i]>> : i \in DOMAIN ks}]

\* the HashMap collected from the transmitted entries
MapOf(entries) ==
    [i \in {e[1] : e \in entries} |-> (CHOOSE e \in entries : e[1] = i)[2]]

\* a deserialization that derives the index from the transmitted storage
deserialize_rederive(rec) ==
    [data |-> rec.data, cmp |-> rec.cmp,
     keys |-> FromIterLoop(rec.data, 1, << >>, EmptyMap).keys]

deserialize(rec) == [data |-> rec.data, cmp |-> rec.cmp, keys |-> MapOf(rec.keys)]

(***************************************************************************)
(* State.                                                                  *)
(*   data, keys, cmp : the three fields of BinaryHeap                      *)
(*   ret             : what the last operation returned                    *)
(*   op              : the last operation and its arguments                *)
(*   status          : "ok"; "panic" after a panic; "ub" after a release   *)
(*                     build ran a repair primitive outside the storage    *)
(*   shadow          : a plain key -> value map driven by the same calls   *)
(*                     (insert on push, delete on pop_with_key / remove),  *)
(*                     kept only to compare the heap against               *)
(***************************************************************************)
VARIABLES data, keys, cmp, ret, op, status, shadow

vars == <<data, keys, cmp, ret, op, status, shadow>>

SeqsUpTo(S, n) == UNION {[1 .. m -> S] : m \in 0 .. n}

RECURSIVE ShadowOf(_, _, _)
ShadowOf(input, i, m) ==
    IF i > Len(input) THEN m
    ELSE ShadowOf(input, i + 1, insert(m, KeyOf(input[i]), ValOf(input[i])))

\* what a broken safety contract of a repair primitive can end in
Outcomes(st) == IF st = "oob" THEN {"panic", "ub"} ELSE {st}

Apply(r, o, sh) ==
    /\ data' = r.data
    /\ keys' = r.keys
    /\ ret' = r.ret
    /\ status' \in Outcomes(r.st)
    /\ op' = o
    /\ shadow' = IF r.st = "ok" THEN sh ELSE shadow
    /\ cmp' = cmp

\* BinaryHeap::new(), new_min() and the FromIterator construction
Construct(c, input) ==
    LET r == from_iter(c, input) IN
    /\ data = r.data
    /\ keys = r.keys
    /\ cmp = c
    /\ ret = None
    /\ status = r.st
    /\ op = <<"from_iter", input>>
    /\ shadow = ShadowOf(input, 1, EmptyMap)

Init == \E c \in Comparators, input \in SeqsUpTo(Keys \X Values, MaxLen) :
            Construct(c, input)

Push(key, item) ==
    /\ status = "ok"
    /\ contains(keys, key) \/ Len(data) < MaxLen
    /\ Apply(push(cmp, data, keys, key, item), <<"push", key, item>>,
             insert(shadow, key, item))

PopWithKey ==
    /\ status = "ok"
    /\ LET r == pop_with_key(cmp, data, keys) IN
       Apply(r, <<"pop_with_key">>,
             IF r.ret = None THEN shadow ELSE remove_key(shadow, KeyOf(r.ret[1])))

Remove(key) ==
    /\ status = "ok"
    /\ Apply(remove(cmp, data, keys, key), <<"remove", key>>,
             remove_key(shadow, key))

Update(key) ==
    /\ status = "ok"
    /\ Apply(update(cmp, data, keys, key), <<"update", key>>, shadow)

Clear ==
    /\ status = "ok"
    /\ Apply(clear(cmp, data, keys), <<"clear">>, EmptyMap)

\* a lookup never stores its key object: the tag of a looked-up key is 0
LookupKeys == {<<i, 0>> : i \in KeyIds}

\* what a caller may do with a handle: nothing, or write a value
Writes == {None} \cup {Some(v) : v \in Values}

\* let h = get_mut(key); *h = v (or nothing); drop(h)
GetMut(key, w) ==
    /\ status = "ok"
    /\ LET r == get_mut(cmp, data, keys, key, w) IN
       Apply(r, <<"get_mut", key, w>>,
             IF r.ret = None \/ w = None THEN shadow
             ELSE insert(shadow, KeyOf(At(data, r.ret[1])), w[1]))

\* let h = peek_mut(); *h = v (or nothing); drop(h)
PeekMut(w) ==
    /\ status = "ok"
    /\ LET r == peek_mut(cmp, data, keys, w) IN
       Apply(r, <<"peek_mut", w>>,
             IF r.ret = None \/ w = None THEN shadow
             ELSE insert(shadow, KeyOf(At(data, 0)), w[1]))

ReplaceCmp(c) ==
    /\ status = "ok"
    /\ LET r == replace_cmp(c, data, keys) IN
       /\ data' = r.data
       /\ keys' = r.keys
       /\ ret' = r.ret
       /\ status' = r.st
       /\ op' = <<"replace_cmp", c>>
       /\ shadow' = shadow
       /\ cmp' = c

\* drain(), n calls of next() that yield an entry, then the iterator is dropped
Drain(n) ==
    /\ status = "ok"
    /\ n <= Len(data)
    /\ Apply(drain(cmp, data, keys, n), <<"drain", n>>, EmptyMap)

Next ==
    \/ \E key \in Keys, item \in Values : Push(key, item)
    \/ PopWithKey
    \/ \E key \in Keys : Remove(key)
    \/ \E key \in Keys : Update(key)
    \/ Clear

Spec == Init /\ [][Next]_vars

(***************************************************************************)
(* A specification for the scoped handles, replace_cmp, drain and clear,   *)
(* on a heap built in bulk.                                                *)
(***************************************************************************)
\* the heap is replaced by what deserializing its serialization gives
SerdeRoundTrip ==
    /\ status = "ok"
    /\ LET h == deserialize(serialize(cmp, data, keys)) IN
       /\ data' = h.data
       /\ keys' = h.keys
       /\ cmp' = h.cmp
    /\ ret' = None
    /\ op' = <<"serde">>
    /\ UNCHANGED <<status, shadow>>

\* let h = peek_mut(); *h = v (or nothing); PeekMut::pop(h) or
\* PeekMut::pop_with_key(h)
PeekMutPop(w, kind) ==
    /\ status = "ok"
    /\ LET r == peek_mut_pop(cmp, data, keys, w, kind) IN
       Apply(r, <<"peek_mut_pop", w, kind>>,
             IF Len(data) = 0 THEN shadow ELSE remove_key(shadow, KeyOf(At(data, 0))))

NextHandles ==
    \/ \E key \in LookupKeys, w \in Writes : GetMut(key, w)
    \/ \E w \in Writes : PeekMut(w)
    \/ \E w \in Writes, kind \in {"pop", "pop_with_key"} : PeekMutPop(w, kind)
    \/ \E c \in Comparators : ReplaceCmp(c)
    \/ \E n \in 0 .. MaxLen : Drain(n)
    \/ Clear
    \/ SerdeRoundTrip

SpecHandles == Init /\ [][NextHandles]_vars

(***************************************************************************)
(* A specification for the iterators.  An iterator is taken from a heap    *)
(* built in bulk and holds it (by value or by borrow) from then on, so     *)
(* only steps of that iterator follow.  `op` is the iterator: its kind and *)
(* its cursor (or what it counted); `ret` is what next() returned.         *)
(***************************************************************************)
Fresh == op[1] = "from_iter"

RefIterKinds == {"iter", "iter_keys", "iter_values"}

\* next() of iter() / `&heap`, iter_keys() or iter_values()
IterNext(kind) ==
    /\ status = "ok"
    /\ Fresh \/ op[1] = kind
    /\ LET i == IF Fresh THEN 0 ELSE op[2]
           r == IF kind = "iter" THEN iter_next(data, i)
                ELSE IF kind = "iter_keys" THEN iter_keys_next(data, i)
                ELSE iter_values_next(data, i)
       IN  /\ ret' = r.item
           /\ op' = <<kind, r.i>>
    /\ UNCHANGED <<data, keys, cmp, status, shadow>>

\* next() of into_iter(): the heap was moved into the iterator, which keeps
\* the storage only
IntoIterNext ==
    /\ status = "ok"
    /\ Fresh \/ op[1] = "into_iter"
    /\ LET r == into_iter_next(data) IN
       /\ data' = r.data
       /\ ret' = r.item
       /\ op' = <<"into_iter", (IF Fresh THEN 0 ELSE op[2])
                                  + (IF r.item = None THEN 0 ELSE 1)>>
    /\ keys' = EmptyMap
    /\ UNCHANGED <<cmp, status, shadow>>

\* next() of into_iter_sorted(); op is <<kind, len() at creation, yielded>>
SortedNext ==
    /\ status = "ok"
    /\ Fresh \/ op[1] = "into_iter_sorted"
    /\ LET r == into_iter_sorted_next(cmp, data, keys)
           orig == IF Fresh THEN len(data) ELSE op[2]
           yielded == IF Fresh THEN 0 ELSE op[3]
       IN  Apply(r, <<"into_iter_sorted", orig,
                      yielded + (IF r.st = "ok" /\ r.ret # None THEN 1 ELSE 0)>>,
                 shadow)

\* MutRefIter::next makes a &mut T out of the &T of a slice::Iter that is
\* still borrowing the storage (`&kv.1 as *const T as *mut T`): writing
\* through a pointer derived from a shared reference is undefined behaviour
AliasOutcomes == {"ok", "ub"}

\* next() of the mutable iterator, the caller writing w to what it yields
MutIterNext(w) ==
    /\ status = "ok"
    /\ Fresh \/ op[1] = "iter_mut"
    /\ LET r == iter_mut_next(data, IF Fresh THEN 0 ELSE op[2], w) IN
       /\ r.item = None => w = None
       /\ data' = r.data
       /\ ret' = r.item
       /\ op' = <<"iter_mut", r.i>>
       /\ status' \in IF r.item = None THEN {"ok"} ELSE AliasOutcomes
    /\ UNCHANGED <<keys, cmp, shadow>>

\* the mutable iterator is released, exhausted or not
MutIterDrop ==
    /\ status = "ok"
    /\ Fresh \/ op[1] = "iter_mut"
    /\ Apply(iter_mut_drop(cmp, data, keys), <<"iter_mut_drop">>, shadow)

NextIter ==
    \/ \E kind \in RefIterKinds : IterNext(kind)
    \/ IntoIterNext
    \/ SortedNext
    \/ \E w \in Writes : MutIterNext(w)
    \/ MutIterDrop

SpecIter == Init /\ [][NextIter]_vars

(***************************************************************************)
(* A specification for append: a heap grown from new() by push and         *)
(* pop_with_key, into which other heaps are merged.  The other heap is an  *)
(* input of the call: it was built from pairs with distinct keys, under    *)
(* its own comparator state.  `ret` is the other heap after the call.      *)
(***************************************************************************)
DistinctKeys(input) ==
    \A i, j \in 1 .. Len(input) :
        i # j => Id(KeyOf(input[i])) # Id(KeyOf(input[j]))

OtherInputs == {s \in SeqsUpTo(LookupKeys \X Values, MaxLen) : DistinctKeys(s)}

AppendHeap(cb, input) ==
    /\ status = "ok"
    /\ Len(data) + Len(input) <= MaxLen
    /\ LET b == from_iter(cb, input)
           r == append(Heap(cmp, data, keys), Heap(cb, b.data, b.keys))
       IN  /\ data' = r.self.data
           /\ keys' = r.self.keys
           /\ cmp' = r.self.cmp
           /\ ret' = Some(r.other)
           /\ status' = r.st
           /\ op' = <<"append", cb, input>>
           /\ shadow' = IF r.st = "ok" THEN ShadowOf(input, 1, shadow) ELSE shadow

NextAppend ==
    \/ \E key \in Keys, item \in Values : Push(key, item)
    \/ PopWithKey
    \/ \E cb \in Comparators, input \in OtherInputs : AppendHeap(cb, input)

SpecAppend == (\E c \in Comparators : Construct(c, << >>)) /\ [][NextAppend]_vars

(***************************************************************************)
(* A second specification for deeper heaps: the heap is built in bulk from *)
(* up to DeepLen pairs with distinct keys (key i at input position i) and  *)
(* is then only taken apart, by pop_with_key and remove.                   *)
(***************************************************************************)
DeepKeys == {<<i, 0>> : i \in 0 .. (DeepLen - 1)}

InitDeep == \E c \in Comparators, n \in 0 .. DeepLen :
                \E vals \in [1 .. n -> Values] :
                    Construct(c, [i \in 1 .. n |-> <<<<i - 1, 0>>, vals[i]>>])

NextDeep ==
    \/ PopWithKey
    \/ \E key \in DeepKeys : Remove(key)

SpecDeep == InitDeep /\ [][NextDeep]_vars

(***************************************************************************)
(* The three data-model invariants.                                        *)
(***************************************************************************)
HeapOrdered(c, d) ==
    \A i \in 1 .. (Len(d) - 1) :
        ~compares_lt(c, ValOf(At(d, (i - 1) \div 2)), ValOf(At(d, i)))

IndexConsistent(d, ks) ==
    /\ \A p \in 0 .. (Len(d) - 1) :
          contains(ks, KeyOf(At(d, p))) /\ ks[Id(KeyOf(At(d, p)))] = p
    /\ Cardinality(DOMAIN ks) = Len(d)

KeysUnique(d) ==
    \A p, q \in 0 .. (Len(d) - 1) :
        p # q => Id(KeyOf(At(d, p))) # Id(KeyOf(At(d, q)))

\* C1: once an operation has returned, no parent is strictly less than its
\* child under the active comparator.
C1_HeapProperty == status = "ok" => HeapOrdered(cmp, data)

\* C2: once an operation has returned, keys[k] = p for every (k, _) stored at
\* position p, and keys has as many entries as data.
C2_IndexConsistency == status = "ok" => IndexConsistent(data, keys)

\* C3: no key occurs at two different positions of the storage.
C3_KeyUniqueness == status = "ok" => KeysUnique(data)

(***************************************************************************)
(* The heap driven only by push, pop_with_key and remove, from new().      *)
(***************************************************************************)
InitCore == \E c \in Comparators : Construct(c, << >>)

NextCore ==
    \/ \E key \in Keys, item \in Values : Push(key, item)
    \/ PopWithKey
    \/ \E key \in Keys : Remove(key)

SpecCore == InitCore /\ [][NextCore]_vars

(***************************************************************************)
(* Popping until empty: the values pop() returns, in order, and how the    *)
(* run of pops ended.                                                      *)
(***************************************************************************)
RECURSIVE PopAll(_, _, _, _)
PopAll(c, d, ks, acc) ==
    IF is_empty(d)
    THEN [vals |-> acc, st |-> "ok"]
    ELSE LET r == pop(c, d, ks) IN
         IF r.st # "ok"
         THEN [vals |-> acc, st |-> r.st]
         ELSE PopAll(c, r.data, r.keys, acc \o r.ret)

StoredValues(d) == [i \in 1 .. Len(d) |-> ValOf(d[i])]

Count(s, v) == Cardinality({i \in 1 .. Len(s) : s[i] = v})

SameMultiset(s, t) ==
    /\ Len(s) = Len(t)
    /\ \A i \in 1 .. Len(s) : Count(s, s[i]) = Count(t, s[i])

NonIncreasing(c, s) ==
    \A i \in 1 .. (Len(s) - 1) : ~compares_lt(c, s[i], s[i + 1])

\* C4: peek() returns a value no stored value exceeds, the following pop()
\* returns that value, popping until empty returns every stored value once in
\* non-increasing comparator order; on an empty heap pop() and peek() are None.
C4_PopOrdering ==
    status = "ok" =>
        /\ is_empty(data) => peek(data) = None /\ pop(cmp, data, keys).ret = None
        /\ ~is_empty(data) =>
              /\ \A i \in 1 .. Len(data) :
                    ~compares_lt(cmp, peek(data)[1], ValOf(data[i]))
              /\ pop(cmp, data, keys).ret = peek(data)
        /\ LET all == PopAll(cmp, data, keys, << >>) IN
              /\ all.st = "ok"
              /\ SameMultiset(all.vals, StoredValues(data))
              /\ NonIncreasing(cmp, all.vals)

\* C5: after any sequence of push, pop_with_key and remove, len() is the size
\* of the reference map, contains_key(k) holds exactly for its keys, and get(k)
\* is its value for k and None for every other key.
C5_AgreesWithMap ==
    /\ status = "ok"
    /\ len(data) = Cardinality(DOMAIN shadow)
    /\ \A k \in Keys :
          /\ contains_key(keys, k) <=> Id(k) \in DOMAIN shadow
          /\ get(data, keys, k) =
                IF Id(k) \in DOMAIN shadow THEN Some(shadow[Id(k)]) ELSE None

(***************************************************************************)
(* Contracts of single operations, stated on the steps that take them.     *)
(***************************************************************************)
Positions(d) == 0 .. (Len(d) - 1)

\* the storage positions that hold an entry for key
EntriesOf(d, key) == {p \in Positions(d) : Id(KeyOf(At(d, p))) = Id(key)}

InStorage(d, key) == EntriesOf(d, key) # {}

OthersUnchanged(key) ==
    \A k2 \in Keys :
        Id(k2) # Id(key) => get(data', keys', k2) = get(data, keys, k2)

\* a remove took an entry out of a heap that still holds two, root indexed
C5_Witness ==
    /\ status = "ok"
    /\ op[1] = "remove"
    /\ ret # None
    /\ Len(data) = 2
    /\ get(data, keys, KeyOf(At(data, 0))) = Some(ValOf(At(data, 0)))

\* C6: push(k, v) with k absent returns None, increases len() by exactly 1,
\* makes contains_key(k) true and get(k) = v, and leaves the value of every
\* other key unchanged.
C6_PushAbsent ==
    [][\A key \in Keys, item \in Values :
          (/\ status = "ok"
           /\ ~contains_key(keys, key)
           /\ op' = <<"push", key, item>>)
          => /\ status' = "ok"
             /\ ret' = None
             /\ len(data') = len(data) + 1
             /\ contains_key(keys', key)
             /\ get(data', keys', key) = Some(item)
             /\ OthersUnchanged(key)]_vars

\* C7: push(k, v2) with k present holding v1 returns Some(v1), leaves len()
\* unchanged, leaves exactly one entry for k, whose value is v2 and whose key
\* is the key object stored before, and re-establishes the heap property.
C7_PushPresent ==
    [][\A key \in Keys, item \in Values :
          (/\ status = "ok"
           /\ contains_key(keys, key)
           /\ get(data, keys, key) # IndexPanic
           /\ op' = <<"push", key, item>>)
          => /\ status' = "ok"
             /\ ret' = get(data, keys, key)
             /\ len(data') = len(data)
             /\ Cardinality(EntriesOf(data', key)) = 1
             /\ \A p \in EntriesOf(data', key) :
                   /\ ValOf(At(data', p)) = item
                   /\ KeyOf(At(data', p)) = KeyOf(At(data, keys[Id(key)]))
             /\ HeapOrdered(cmp', data')]_vars

\* C8: remove(k) for a present key k holding v returns Some((k, v)), decreases
\* len() by 1, makes contains_key(k) false, leaves every other key with the
\* same value, and an immediately following remove(k) returns None.
C8_RemovePresent ==
    [][\A key \in Keys :
          (/\ status = "ok"
           /\ contains_key(keys, key)
           /\ get(data, keys, key) # IndexPanic
           /\ op' = <<"remove", key>>)
          => /\ status' = "ok"
             /\ Len(ret') = 1
             /\ Id(KeyOf(ret'[1])) = Id(key)
             /\ Some(ValOf(ret'[1])) = get(data, keys, key)
             /\ len(data') = len(data) - 1
             /\ ~contains_key(keys', key)
             /\ OthersUnchanged(key)
             /\ remove(cmp', data', keys', key).ret = None]_vars

C10_UpdateAbsentPanics ==
    [][\A key \in Keys :
          (/\ status = "ok"
           /\ ~contains_key(keys, key)
           /\ op' = <<"update", key>>)
          => status' = "panic"]_vars

C10_Witness ==
    /\ op[1] = "update"
    /\ ~contains_key(keys, op[2])
    /\ status = "panic"
    /\ Len(data) >= 2

(***************************************************************************)
(* Contracts of update, the scoped handles, append, drain and clear, bulk  *)
(* construction and replace_cmp.                                           *)
(***************************************************************************)
\* the storage with the value at position pos replaced by v
WithValue(d, pos, v) == SetAt(d, pos, <<KeyOf(At(d, pos)), v>>)

\* the storage differs from an ordered heap in the value of one entry at most
OrderedButFor(c, d, pos) == \E v \in Values : HeapOrdered(c, WithValue(d, pos, v))

\* C11: when the storage is an ordered heap in which the value of the one
\* entry k was changed (to a greater, smaller or equal value), update(k)
\* returns with the heap property holding, the same entries (none added, lost
\* or re-paired) and a consistent index.
C11_UpdateRepairs ==
    [][\A key \in Keys :
          (/\ status = "ok"
           /\ contains_key(keys, key)
           /\ get(data, keys, key) # IndexPanic
           /\ Id(KeyOf(At(data, keys[Id(key)]))) = Id(key)
           /\ OrderedButFor(cmp, data, keys[Id(key)])
           /\ op' = <<"update", key>>)
          => /\ status' = "ok"
             /\ HeapOrdered(cmp', data')
             /\ SameMultiset(data, data')
             /\ IndexConsistent(data', keys')]_vars

\* C12: get_mut(k) for an absent key returns None and leaves the heap
\* unchanged; for a present key, once a handle through which v was written is
\* released, the heap property and index consistency hold and get(k) = v.
C12_GetMut ==
    [][\A key \in LookupKeys, w \in Writes :
          (status = "ok" /\ op' = <<"get_mut", key, w>>)
          => /\ ~contains_key(keys, key)
                => /\ status' = "ok"
                   /\ ret' = None
                   /\ data' = data
                   /\ keys' = keys
             /\ (contains_key(keys, key) /\ w # None)
                => /\ status' = "ok"
                   /\ HeapOrdered(cmp', data')
                   /\ IndexConsistent(data', keys')
                   /\ get(data', keys', key) = w]_vars

\* C13: peek_mut() returns None on an empty heap; on a non-empty heap, once a
\* handle through which the root value was changed is released, the heap
\* property and index consistency hold and no stored value exceeds peek().
C13_PeekMut ==
    [][\A w \in Writes :
          (status = "ok" /\ op' = <<"peek_mut", w>>)
          => /\ is_empty(data) => (status' = "ok" /\ ret' = None)
             /\ (~is_empty(data) /\ w # None)
                => /\ status' = "ok"
                   /\ HeapOrdered(cmp', data')
                   /\ IndexConsistent(data', keys')
                   /\ \A i \in 1 .. Len(data') :
                         ~compares_lt(cmp', peek(data')[1], ValOf(data'[i]))]_vars

\* the keys of the pairs of a sequence, as ids
IdsOf(input) == {Id(KeyOf(input[i])) : i \in 1 .. Len(input)}

\* C14: a.append(b) for heaps with disjoint key sets does not panic; a then
\* holds the entries of both (len is the sum, every key of either is found by
\* contains_key and get), b is empty, and popping a until empty returns the
\* values of both in comparator order.
C14_Append ==
    [][\A cb \in Comparators, input \in OtherInputs :
          (/\ status = "ok"
           /\ IdsOf(input) \cap (DOMAIN keys \cup IdsOf(data)) = {}
           /\ op' = <<"append", cb, input>>)
          => /\ status' = "ok"
             /\ len(data') = len(data) + Len(input)
             /\ \A i \in 1 .. Len(data) :
                   /\ contains_key(keys', KeyOf(data[i]))
                   /\ get(data', keys', KeyOf(data[i])) = Some(ValOf(data[i]))
             /\ \A i \in 1 .. Len(input) :
                   /\ contains_key(keys', KeyOf(input[i]))
                   /\ get(data', keys', KeyOf(input[i])) = Some(ValOf(input[i]))
             /\ is_empty(ret'[1].data)
             /\ LET all == PopAll(cmp', data', keys', << >>) IN
                   /\ all.st = "ok"
                   /\ SameMultiset(all.vals, StoredValues(data \o input))
                   /\ NonIncreasing(cmp', all.vals)]_vars

\* C15: after clear(), and after a drain() iterator was released (consumed to
\* the end or not), len() = 0, is_empty() holds and contains_key(k) is false
\* for every key; drain yielded the removed entries once each in storage order.
C15_DrainClearEmpty ==
    [][(status = "ok" /\ op'[1] \in {"clear", "drain"})
          => /\ status' = "ok"
             /\ len(data') = 0
             /\ is_empty(data')
             /\ \A k \in Keys : ~contains_key(keys', k)
             /\ op'[1] = "drain" => ret' = SubSeq(data, 1, op'[2])]_vars

\* C16: bulk construction from pairs in which a key occurs more than once
\* gives a heap with exactly one entry for that key, holding the value of its
\* last occurrence; len() is the number of distinct keys.
C16_BulkLastWriteWins ==
    op[1] = "from_iter" =>
        LET input == op[2]
            last == ShadowOf(input, 1, EmptyMap)
        IN  /\ status = "ok"
            /\ len(data) = Cardinality(DOMAIN last)
            /\ \A i \in 1 .. Len(input) :
                  /\ Cardinality(EntriesOf(data, KeyOf(input[i]))) = 1
                  /\ get(data, keys, KeyOf(input[i])) = Some(last[Id(KeyOf(input[i]))])

\* the heap built from new() by pushing the pairs of input one by one
RECURSIVE PushAll(_, _, _, _, _)
PushAll(c, input, i, d, ks) ==
    IF i > Len(input)
    THEN Result(d, ks, None, "ok")
    ELSE LET r == push(c, d, ks, KeyOf(input[i]), ValOf(input[i])) IN
         IF r.st # "ok" THEN r ELSE PushAll(c, input, i + 1, r.data, r.keys)

\* C17: for the same sequence of pairs, the heap built by repeated push and
\* the heap built in bulk return the same sequence of values when each is
\* popped until empty.
C17_BulkEqualsPushes ==
    op[1] = "from_iter" =>
        LET pushed == PushAll(cmp, op[2], 1, << >>, EmptyMap) IN
        /\ status = "ok"
        /\ pushed.st = "ok"
        /\ PopAll(cmp, pushed.data, pushed.keys, << >>)
              = PopAll(cmp, data, keys, << >>)

\* C18: after replace_cmp(c) the heap property holds under c, the stored
\* entries are the same and the index is consistent; replacing the comparator
\* of a max-ordered heap by a min-order one makes the pops ascending.
C18_ReplaceCmp ==
    [][\A c \in Comparators :
          (status = "ok" /\ op' = <<"replace_cmp", c>>)
          => /\ status' = "ok"
             /\ cmp' = c
             /\ HeapOrdered(c, data')
             /\ SameMultiset(data, data')
             /\ IndexConsistent(data', keys')
             /\ (cmp = "max" /\ c = "min")
                => LET all == PopAll(c, data', keys', << >>) IN
                      /\ all.st = "ok"
                      /\ SameMultiset(all.vals, StoredValues(data))
                      /\ \A i \in 1 .. (Len(all.vals) - 1) :
                            all.vals[i] <= all.vals[i + 1]]_vars

\* C19: in every reachable state, peek, peek_with_key, peek_mut, pop and
\* pop_with_key on an empty heap, and get, get_mut and remove for a key that
\* has no stored entry, return None without panicking.
C19_AbsenceNeverFatal ==
    status = "ok" =>
        /\ is_empty(data) =>
              /\ peek(data) = None
              /\ peek_with_key(data) = None
              /\ \A w \in Writes :
                    peek_mut(cmp, data, keys, w) = Result(data, keys, None, "ok")
              /\ pop(cmp, data, keys).st = "ok"
              /\ pop(cmp, data, keys).ret = None
              /\ pop_with_key(cmp, data, keys).st = "ok"
              /\ pop_with_key(cmp, data, keys).ret = None
        /\ \A key \in Keys :
              ~InStorage(data, key) =>
                  /\ get(data, keys, key) = None
                  /\ \A w \in Writes :
                        /\ get_mut(cmp, data, keys, key, w).st = "ok"
                        /\ get_mut(cmp, data, keys, key, w).ret = None
                  /\ remove(cmp, data, keys, key).st = "ok"
                  /\ remove(cmp, data, keys, key).ret = None

\* C20: whatever sequence of public operations led to a state, no operation
\* called in it enters sift_up, sift_down, sift_down_range or
\* sift_down_to_bottom with a position outside the storage.
C20_PrimitivesInBounds ==
    status = "ok" =>
        \A key \in Keys :
            /\ update(cmp, data, keys, key).st # "oob"
            /\ push(cmp, data, keys, key, 0).st # "oob"
            /\ remove(cmp, data, keys, key).st # "oob"
            /\ pop_with_key(cmp, data, keys).st # "oob"
            /\ \A w \in Writes :
                  /\ get_mut(cmp, data, keys, key, w).st # "oob"
                  /\ peek_mut(cmp, data, keys, w).st # "oob"

(***************************************************************************)
(* Contracts of the iterators and of serialization.                        *)
(***************************************************************************)
\* C21: into_iter_sorted: every next() on a non-empty heap returns a value no
\* stored value exceeds, never greater than the one before; size_hint is the
\* number of values not yet yielded; after len() values next() returns None.
C21_SortedIter ==
    [][(status = "ok" /\ op'[1] = "into_iter_sorted")
          => LET yielded == IF Fresh THEN 0 ELSE op[3] IN
             /\ status' = "ok"
             /\ into_iter_sorted_size_hint(data) = op'[2] - yielded
             /\ ~is_empty(data)
                => /\ Len(ret') = 1
                   /\ \A i \in 1 .. Len(data) :
                         ~compares_lt(cmp, ret'[1], ValOf(data[i]))
                   /\ ret # None => ~compares_lt(cmp, ret[1], ret'[1])
                   /\ into_iter_sorted_size_hint(data')
                         = into_iter_sorted_size_hint(data) - 1
             /\ is_empty(data) => (ret' = None /\ yielded = op'[2])]_vars

\* what the iterator of a kind yields for an entry
Yield(kind, e) ==
    IF kind = "iter" THEN e ELSE IF kind = "iter_keys" THEN KeyOf(e) ELSE ValOf(e)

\* C22: iter, iter_keys, iter_values (and `&heap`) and into_iter visit the
\* stored entries one by one in storage order, the root that peek_with_key
\* returns first; the size_hint of into_iter is exact and decreases by one
\* with each item until next() returns None.
C22_StorageOrderIteration ==
    [][status = "ok"
          => /\ \A kind \in RefIterKinds :
                   op'[1] = kind
                   => LET i == IF Fresh THEN 0 ELSE op[2] IN
                      /\ data' = data
                      /\ i < Len(data)
                         => /\ ret' = Some(Yield(kind, At(data, i)))
                            /\ op'[2] = i + 1
                            /\ iter_size_hint(data, op'[2])
                                  = iter_size_hint(data, i) - 1
                      /\ i >= Len(data)
                         => (ret' = None /\ iter_size_hint(data, i) = 0)
                      /\ (i = 0 /\ kind = "iter" /\ ~is_empty(data))
                         => ret' = peek_with_key(data)
             /\ op'[1] = "into_iter"
                => /\ ~is_empty(data)
                      => /\ ret' = Some(At(data, 0))
                         /\ data' = Tail(data)
                         /\ into_iter_size_hint(data')
                               = into_iter_size_hint(data) - 1
                         /\ Fresh => ret' = peek_with_key(data)
                   /\ is_empty(data)
                      => (ret' = None /\ into_iter_size_hint(data) = 0)]_vars

\* iter() has yielded the third entry of a three-entry heap
C22_Witness ==
    /\ status = "ok"
    /\ op = <<"iter", 3>>
    /\ Len(data) = 3
    /\ ret = Some(At(data, 2))
    /\ At(data, 2) # At(data, 0)

\* C23: the mutable iterator repairs nothing while it yields (only the value
\* it hands out can change); when it is released, exhausted or not, one full
\* rebuild is done and the heap property holds, the index is consistent and
\* the set of keys is as before.
C23_MutIter ==
    [][status = "ok"
          => /\ op'[1] = "iter_mut"
                => /\ status' = "ok"
                   /\ keys' = keys
                   /\ Len(data') = Len(data)
                   /\ \A p \in Positions(data) :
                         /\ KeyOf(At(data', p)) = KeyOf(At(data, p))
                         /\ p + 1 # op'[2] => At(data', p) = At(data, p)
             /\ op'[1] = "iter_mut_drop"
                => /\ status' = "ok"
                   /\ data' = rebuild(cmp, data, keys).data
                   /\ HeapOrdered(cmp', data')
                   /\ IndexConsistent(data', keys')
                   /\ IdsOf(data') = IdsOf(data)
                   /\ DOMAIN keys' = DOMAIN keys]_vars

Invariants(c, d, ks) ==
    HeapOrdered(c, d) /\ IndexConsistent(d, ks) /\ KeysUnique(d)

PoisonValue(key) ==
    /\ status = "ok"
    /\ contains(keys, key)
    /\ keys[Id(key)] < Len(data)
    /\ ~Poisoned(ValOf(At(data, keys[Id(key)])))
    /\ data' = WithValue(data, keys[Id(key)], Poison(ValOf(At(data, keys[Id(key)]))))
    /\ ret' = None
    /\ op' = <<"poison", key>>
    /\ UNCHANGED <<keys, cmp, status, shadow>>

NextPanic ==
    \/ \E key \in LookupKeys, item \in Values : Push(key, item)
    \/ PopWithKey
    \/ \E key \in LookupKeys : Remove(key)
    \/ \E key \in LookupKeys : Update(key)
    \/ \E c \in Comparators : ReplaceCmp(c)
    \/ \E key \in LookupKeys : PoisonValue(key)

SpecPanic == InitCore /\ [][NextPanic]_vars

\* the entries of a storage, as a set
Entries(d) == {d[i] : i \in 1 .. Len(d)}

\* C24: when a comparison panics inside the sift of push, pop, remove, update
\* or rebuild, then after unwinding no stored entry is duplicated, every
\* stored entry was there before (or is the pushed one), and the index maps
\* exactly the stored keys to their positions.
C24_CancellationSafety ==
    [][(/\ status = "ok"
        /\ status' = "panic"
        /\ op'[1] \in {"push", "pop_with_key", "remove", "update", "replace_cmp"}
        /\ op'[1] = "update" => contains_key(keys, op'[2]))
          => /\ KeysUnique(data')
             /\ \A e \in Entries(data') :
                   \/ \E e0 \in Entries(data) : KeyOf(e0) = KeyOf(e)
                   \/ op'[1] = "push" /\ KeyOf(e) = op'[2]
             /\ IndexConsistent(data', keys')]_vars

(***************************************************************************)
(* Contracts of remove and of the sift primitives.                         *)
(***************************************************************************)
\* C26: remove(k) of a stored key on a heap that satisfies the heap property
\* leaves a heap that satisfies it, wherever k is stored (also when the last
\* element, moved into the vacated slot, is greater than the slot's parent).
C26_RemoveKeepsHeapProperty ==
    [][(/\ status = "ok"
        /\ op'[1] = "remove"
        /\ contains_key(keys, op'[2])
        /\ HeapOrdered(cmp, data))
          => /\ status' = "ok"
             /\ HeapOrdered(cmp', data')]_vars

\* the positions of a storage whose two children are both stored and compare
\* equal
TiedChildren(c, d) ==
    {p \in Positions(d) :
        /\ 2 * p + 2 < Len(d)
        /\ compare(c, ValOf(At(d, 2 * p + 1)), ValOf(At(d, 2 * p + 2))) = "Equal"}

\* the entry that one round of a sift-down at position p leaves at p
AfterSiftDown(c, d, ks, p) ==
    At(SiftDownRangeLoop(c, HoleNew(d, ks, p), 2 * p + 3).data, p)

AfterSiftDownToBottom(c, d, ks, p) ==
    At(SiftDownToBottomLoop(c, HoleNew(d, ks, p), 2 * p + 3).data, p)

\* C27 (as amended): when the two children of the hole compare equal, the
\* RIGHT child (higher index) is the one sift_down_range compares with the
\* element and, when the element is strictly less, moves into the hole, and
\* the one sift_down_to_bottom moves into the hole.
C27_TieTakesRightChild ==
    status = "ok"
    => \A p \in TiedChildren(cmp, data) :
          LET right == At(data, 2 * p + 2) IN
          /\ GreaterChild(cmp, HoleNew(data, keys, p), 2 * p + 1) = 2 * p + 2
          /\ AfterSiftDownToBottom(cmp, data, keys, p) = right
          /\ AfterSiftDown(cmp, data, keys, p)
                = IF compares_lt(cmp, ValOf(At(data, p)), ValOf(right))
                  THEN right ELSE At(data, p)

\* C27 (as stated): when the two children of the hole compare equal, the
\* LEFT child (lower index) is the one compared with the element and moved
\* into the hole.
C27_TieTakesLeftChild ==
    status = "ok"
    => \A p \in TiedChildren(cmp, data) :
          LET left == At(data, 2 * p + 1) IN
          /\ GreaterChild(cmp, HoleNew(data, keys, p), 2 * p + 1) = 2 * p + 1
          /\ AfterSiftDownToBottom(cmp, data, keys, p) = left
          /\ AfterSiftDown(cmp, data, keys, p)
                = IF compares_lt(cmp, ValOf(At(data, p)), ValOf(left))
                  THEN left ELSE At(data, p)

\* a stored entry strictly less than its two equal children, which both
\* sift-downs replace by the right child
C27_Witness ==
    /\ status = "ok"
    /\ \E p \in TiedChildren(cmp, data) :
          /\ compares_lt(cmp, ValOf(At(data, p)), ValOf(At(data, 2 * p + 2)))
          /\ AfterSiftDown(cmp, data, keys, p) = At(data, 2 * p + 2)
          /\ AfterSiftDownToBottom(cmp, data, keys, p) = At(data, 2 * p + 2)
          /\ At(data, 2 * p + 2) # At(data, 2 * p + 1)

\* the positions sift_up passes on its way from pos up to (not including) top
RECURSIVE PathUp(_, _)
PathUp(pos, top) ==
    IF pos <= top THEN {} ELSE {pos} \cup PathUp((pos - 1) \div 2, top)

\* what sift_up(start, pos) may do to a storage: the element ends at the
\* returned position, between start and pos; every entry it passed was its
\* parent, strictly less, and went one level down; it stopped at start or
\* below a parent it is not strictly greater than; nothing else changed
SiftUpContract(c, d, ks, start, pos) ==
    LET r == sift_up(c, d, ks, start, pos)
        elt == At(d, pos)
    IN  ~r.panic
        => /\ r.pos <= pos
           /\ pos > start => r.pos >= start
           /\ pos <= start => (r.pos = pos /\ r.data = d)
           /\ At(r.data, r.pos) = elt
           /\ \A q \in PathUp(pos, r.pos) :
                 /\ At(r.data, q) = At(d, (q - 1) \div 2)
                 /\ compares_lt(c, ValOf(At(d, (q - 1) \div 2)), ValOf(elt))
           /\ \A q \in Positions(d) \ (PathUp(pos, r.pos) \cup {r.pos}) :
                 At(r.data, q) = At(d, q)
           /\ r.pos > start
              => compares_le(c, ValOf(elt), ValOf(At(d, (r.pos - 1) \div 2)))
           /\ (pos > 0 /\ compare(c, ValOf(elt), ValOf(At(d, (pos - 1) \div 2))) = "Equal")
              => (r.pos = pos /\ r.data = d)

PushPopKeys == {<<i, 0>> : i \in 0 .. (PushPopLen - 1)}

\* heap.push(key, item) for a key the heap does not hold
PushNew(key, item) ==
    /\ status = "ok"
    /\ ~contains_key(keys, key)
    /\ Len(data) < PushPopLen
    /\ Apply(push(cmp, data, keys, key, item), <<"push", key, item>>,
             insert(shadow, key, item))

NextPushPop ==
    \/ \E key \in PushPopKeys, item \in Values : PushNew(key, item)
    \/ PopWithKey

SpecPushPop == InitCore /\ [][NextPushPop]_vars

\* assert_key_map_valid: the map built from the storage by enumeration is the
\* index
assert_key_map_valid(d, ks) ==
    LET expected_keys == FromIterLoop(d, 1, << >>, EmptyMap).keys IN
    /\ \A k \in DOMAIN expected_keys :
          k \in DOMAIN ks /\ ks[k] = expected_keys[k]
    /\ Cardinality(DOMAIN ks) = Cardinality(DOMAIN expected_keys)

\* C29: with only pushes of keys not in the heap and pop_with_key, after every
\* call each stored key is mapped by the index to the position it is stored
\* at and the index has one entry per stored element; each pop_with_key
\* returns a stored pair whose value no stored value exceeds and removes it,
\* or returns None when the heap is empty.
C29_PushPopKeyMap ==
    /\ [](/\ status = "ok"
          /\ assert_key_map_valid(data, keys)
          /\ IndexConsistent(data, keys)
          /\ KeysUnique(data))
    /\ [][op' = <<"pop_with_key">>
            => IF is_empty(data)
               THEN ret' = None /\ data' = data
               ELSE /\ Len(ret') = 1
                    /\ ret'[1] \in Entries(data)
                    /\ \A e \in Entries(data) :
                          ~compares_lt(cmp, ValOf(ret'[1]), ValOf(e))
                    /\ Entries(data') = Entries(data) \ {ret'[1]}
                    /\ Len(data') = Len(data) - 1]_vars

\* pop_with_key took the greatest of five stored pairs, one of them smaller,
\* and the four left are indexed by their positions
C29_Witness ==
    /\ status = "ok"
    /\ op = <<"pop_with_key">>
    /\ Len(data) = PushPopLen - 1
    /\ ret # None
    /\ \A e \in Entries(data) : ~compares_lt(cmp, ValOf(ret[1]), ValOf(e))
    /\ \E e \in Entries(data) : compares_lt(cmp, ValOf(e), ValOf(ret[1]))
    /\ assert_key_map_valid(data, keys)

(***************************************************************************)
(* Contract of rebuild.                                                    *)
(***************************************************************************)
\* sift_down applied at the positions of a sequence, one after the other
RECURSIVE SiftDownEach(_, _, _, _)
SiftDownEach(c, d, ks, positions) ==
    IF positions = << >>
    THEN [data |-> d, keys |-> ks]
    ELSE LET r == sift_down(c, d, ks, Head(positions)) IN
         SiftDownEach(c, r.data, r.keys, Tail(positions))

\* len/2 - 1, len/2 - 2, ..., 0
InternalNodesDecreasing(d) ==
    [i \in 1 .. (Len(d) \div 2) |-> (Len(d) \div 2) - i]

\* what rebuild() makes of a storage d indexed by ks
RebuildContract(c, d, ks) ==
    LET r == rebuild(c, d, ks)
        e == SiftDownEach(c, d, ks, InternalNodesDecreasing(d))
    IN  /\ ~r.panic
        /\ r.data = e.data /\ r.keys = e.keys
        /\ HeapOrdered(c, r.data)
        /\ SameMultiset(r.data, d)
        /\ IndexConsistent(r.data, r.keys)
        /\ Len(d) <= 1 => (r.data = d /\ r.keys = ks)

\* C30: rebuild() on a storage in any order with unique keys and a consistent
\* index does sift_down at the positions len/2 - 1 down to 0, in that order,
\* and leaves a storage that satisfies the heap property, holds the same
\* entries and is indexed consistently; a storage of at most one entry is
\* left as it is.  Checked for the rebuild of the bulk construction and for
\* a rebuild of every storage reached afterwards.
C30_Rebuild ==
    status = "ok"
    => /\ (KeysUnique(data) /\ IndexConsistent(data, keys))
          => RebuildContract(cmp, data, keys)
       /\ Fresh
          => LET h == FromIterLoop(op[2], 1, << >>, EmptyMap) IN
             /\ KeysUnique(h.data) /\ IndexConsistent(h.data, h.keys)
             /\ RebuildContract(cmp, h.data, h.keys)
             /\ data = rebuild(cmp, h.data, h.keys).data
             /\ keys = rebuild(cmp, h.data, h.keys).keys
             /\ HeapOrdered(cmp, data)
             /\ SameMultiset(data, op[2])
             /\ IndexConsistent(data, keys)

\* the bulk construction rebuilt seven pairs given out of heap order
C30_Witness ==
    /\ status = "ok"
    /\ Fresh
    /\ Len(data) = DeepLen
    /\ ~HeapOrdered(cmp, op[2])
    /\ data # op[2]
    /\ HeapOrdered(cmp, data)
    /\ IndexConsistent(data, keys)

(***************************************************************************)
(* rebuild_tail as a function of the storage it is given: the storage as   *)
(* append leaves it after self.data.append(&mut other.data), the first     *)
(* `start` entries an ordered heap, the tail in any order, every key in    *)
(* the index.  `op` holds the input and then the strategy that ran.        *)
(***************************************************************************)
InitTail ==
    \E c \in Comparators, n \in 0 .. TailLen, start \in 0 .. TailLen :
        \E vals \in [1 .. n -> Values] :
            LET d == [i \in 1 .. n |-> <<<<i - 1, 0>>, vals[i]>>] IN
            /\ start <= n
            /\ HeapOrdered(c, SubSeq(d, 1, start))
            /\ data = d
            /\ keys = FromIterLoop(d, 1, << >>, EmptyMap).keys
            /\ cmp = c
            /\ ret = None
            /\ op = <<"tail", start>>
            /\ status = "ok"
            /\ shadow = ShadowOf(d, 1, EmptyMap)

\* one of the ways to repair the tail ran on the input
TailStep(r, how) ==
    /\ status = "ok"
    /\ op[1] = "tail"
    /\ Apply(Result(r.data, r.keys, None, St(r)), <<how, op[2]>>, shadow)

\* self.rebuild_tail(start)
RebuildTail == TailStep(rebuild_tail(cmp, data, keys, op[2]), "rebuild_tail")

\* the branch self.rebuild()
TailByRebuild == TailStep(rebuild(cmp, data, keys), "rebuild")

\* the branch for i in start..self.len() { self.sift_up(0, i) }
TailBySiftUp == TailStep(SiftUpTail(cmp, data, keys, op[2]), "sift_up")

NextTail == RebuildTail \/ TailByRebuild \/ TailBySiftUp

SpecTail == InitTail /\ [][NextTail]_vars

\* C31: on a storage whose first `start` entries are an ordered heap, followed
\* by any tail, all keys indexed, rebuild_tail(start), the full rebuild and
\* the sift_up of the tail positions in increasing order each return with the
\* whole storage an ordered heap of the same entries, indexed consistently.
C31_RebuildTailStrategies ==
    [][(status = "ok" /\ op[1] = "tail")
          => /\ status' = "ok"
             /\ HeapOrdered(cmp', data')
             /\ SameMultiset(data', data)
             /\ IndexConsistent(data', keys')
             /\ LET a == rebuild(cmp, data, keys)
                    b == SiftUpTail(cmp, data, keys, op[2])
                IN  /\ ~a.panic /\ ~b.panic
                    /\ HeapOrdered(cmp, a.data) /\ HeapOrdered(cmp, b.data)
                    /\ SameMultiset(a.data, b.data)]_vars

\* the sift_up strategy repaired a tail of two entries that was out of order
\* behind a heap of four
C31_Witness ==
    /\ status = "ok"
    /\ op = <<"sift_up", 4>>
    /\ Len(data) = TailLen
    /\ HeapOrdered(cmp, data)
    /\ \E i \in 1 .. TailLen : KeyOf(data[i]) # <<i - 1, 0>>

(***************************************************************************)
(* The choice rebuild_tail makes, as a function of the two lengths alone.  *)
(* The storage itself is left out: `op` holds len and start, `ret` the     *)
(* strategy chosen.  Lengths are the small ones and those on both sides of *)
(* the crossover at 2048.                                                  *)
(***************************************************************************)
HeuristicLens ==
    (0 .. SmallLen) \cup ((CrossoverLen - Around) .. (CrossoverLen + 1 + Around))

InitHeuristic ==
    \E c \in Comparators, length \in HeuristicLens, start \in 0 .. (CrossoverLen + 1 + Around) :
        /\ start <= length
        /\ data = << >>
        /\ keys = EmptyMap
        /\ cmp = c
        /\ ret = None
        /\ op = <<"lens", length, start>>
        /\ status = "ok"
        /\ shadow = EmptyMap

\* rebuild_tail(start) decides
ChooseStrategy ==
    /\ status = "ok"
    /\ op[1] = "lens"
    /\ ret' = Some(rebuild_tail_strategy(op[2], op[3]))
    /\ op' = <<"rebuild_tail", op[2], op[3], log2_fast_argument(op[2], op[3])>>
    /\ UNCHANGED <<data, keys, cmp, status, shadow>>

NextHeuristic == ChooseStrategy

SpecHeuristic == InitHeuristic /\ [][NextHeuristic]_vars

\* floor(log2(x)) by its defining inequality, for x >= 1
FloorLog2(x) == CHOOSE k \in 0 .. 12 : 2 ^ k <= x /\ x < 2 ^ (k + 1)

\* C32: with tail_len = len - start > 0, rebuild_tail(start) sifts up exactly
\* when start >= tail_len and 2*len >= tail_len * floor(log2(start)) (len <=
\* 2048) or 2*len >= tail_len * 11 (len > 2048), and rebuilds otherwise;
\* log2 is never taken of 0; with start = len nothing is done.
C32_RebuildTailHeuristic ==
    op[1] = "rebuild_tail"
    => LET length == op[2]
           start == op[3]
           tail_len == length - start
       IN  /\ start = length <=> ret = Some("return")
           /\ tail_len > 0
              => /\ ret \in {Some("sift_up"), Some("rebuild")}
                 /\ ret = Some("sift_up")
                    <=> /\ start >= tail_len
                        /\ IF length <= 2048
                           THEN 2 * length >= tail_len * FloorLog2(start)
                           ELSE 2 * length >= tail_len * 11
           /\ (tail_len > 0 /\ op[4] # None) => op[4][1] >= 1

\* a tail as long as the heap of 32 before it: log2(32) * 32 > 2 * 64, so the
\* storage is rebuilt although start >= tail_len
C32_Witness ==
    /\ op[1] = "rebuild_tail"
    /\ op[2] = 64 /\ op[3] = 32
    /\ op[4] = Some(32)
    /\ ret = Some("rebuild")

(***************************************************************************)
(* Contracts of the scoped handles.                                        *)
(***************************************************************************)
\* C33: a handle released without a write changes nothing: peek_mut never
\* dereferenced mutably does no sift; get_mut released, or update(k), for a
\* key in the heap whose storage satisfies the heap property returns with the
\* storage and the index exactly as they were.
C33_UnchangedRelease ==
    /\ [](status = "ok"
            => /\ peek_mut(cmp, data, keys, None).data = data
               /\ peek_mut(cmp, data, keys, None).keys = keys
               /\ peek_mut(cmp, data, keys, None).st = "ok"
               /\ HeapOrdered(cmp, data)
                  => \A key \in LookupKeys :
                        contains_key(keys, key)
                        => LET u == update(cmp, data, keys, key) IN
                           u.st = "ok" /\ u.data = data /\ u.keys = keys)
    /\ [][(/\ status = "ok"
           /\ \/ op'[1] = "peek_mut" /\ op'[2] = None
              \/ /\ op'[1] = "get_mut" /\ op'[3] = None
                 /\ contains_key(keys, op'[2])
                 /\ HeapOrdered(cmp, data))
             => (status' = "ok" /\ data' = data /\ keys' = keys)]_vars

\* C34: PeekMut::pop and PeekMut::pop_with_key return the entry at the root
\* with the value written through the handle, if any; the storage is what
\* pop_with_key leaves (the drop of the handle sifts nothing more), satisfies
\* the heap property when it did before, has a consistent index, and the
\* popped key is no longer in the heap.
C34_PeekMutPop ==
    [][(status = "ok" /\ op'[1] = "peek_mut_pop" /\ ~is_empty(data))
          => LET root == IF op'[2] = None THEN At(data, 0)
                         ELSE <<KeyOf(At(data, 0)), op'[2][1]>>
                 d1 == SetAt(data, 0, root)
             IN  /\ status' = "ok"
                 /\ ret' = Some(IF op'[3] = "pop" THEN ValOf(root) ELSE root)
                 /\ data' = pop_with_key(cmp, d1, keys).data
                 /\ Len(data') = Len(data) - 1
                 /\ HeapOrdered(cmp, data) => HeapOrdered(cmp', data')
                 /\ IndexConsistent(data', keys')
                 /\ ~contains_key(keys', KeyOf(root))
                 /\ ~InStorage(data', KeyOf(root))]_vars

(***************************************************************************)
(* Frame of the repair primitives.                                         *)
(***************************************************************************)
\* the positions whose entry a primitive replaced
MovedInto(d, r) == {p \in Positions(d) : At(r.data, p) # At(d, p)}

\* r is what a primitive made of storage d with index ks when it sifted the
\* element at pos: the same pairs, the sifted element at r.pos, the index of
\* it and of every moved entry equal to where it now is, the rest of the
\* index untouched
PermutesOnly(d, ks, pos, r) ==
    ~r.panic
    => /\ SameMultiset(r.data, d)
       /\ At(r.data, r.pos) = At(d, pos)
       /\ r.keys[Id(KeyOf(At(d, pos)))] = r.pos
       /\ \A p \in MovedInto(d, r) : r.keys[Id(KeyOf(At(r.data, p)))] = p
       /\ DOMAIN r.keys = DOMAIN ks
       /\ \A k \in DOMAIN ks :
             (\A p \in MovedInto(d, r) \cup {r.pos} : Id(KeyOf(At(r.data, p))) # k)
             => r.keys[k] = ks[k]

\* C35: sift_up, sift_down_range and sift_down_to_bottom, called within their
\* bounds on the storage of any reachable state, only permute it: the pairs
\* are the same, the index entries of the sifted element and of every entry
\* moved into the hole are their new positions, all others are unchanged.
C35_PrimitivesPermute ==
    status = "ok"
    => \A pos \in Positions(data) :
          /\ \A start \in 0 .. pos :
                PermutesOnly(data, keys, pos, sift_up(cmp, data, keys, start, pos))
          /\ \A end \in (pos + 1) .. Len(data) :
                PermutesOnly(data, keys, pos,
                             sift_down_range(cmp, data, keys, pos, end))
          /\ PermutesOnly(data, keys, pos,
                          sift_down_to_bottom(cmp, data, keys, pos))

(***************************************************************************)
(* The loops of the repair primitives, one iteration per step.             *)
(*   data, keys : the slice and the index the hole borrows                 *)
(*   ret        : Some(element of the hole) while a hole is open           *)
(*   op         : <<primitive, phase, pos, bound, origin>>: the position   *)
(*                of the hole (the counter n for rebuild), `start` or      *)
(*                `end`, and the position the primitive was called with;   *)
(*                phase is "down" or "up" while a loop runs, then "done"   *)
(* A primitive is called as its callers call it, within its bounds, on a   *)
(* storage with distinct, indexed keys in any order: sift_up(0, pos) by    *)
(* push, update and rebuild_tail, and sift_up(start, pos) with pos below   *)
(* start by sift_down_to_bottom.                                           *)
(***************************************************************************)
Primitives == {"sift_up", "sift_down_range", "sift_down_to_bottom", "rebuild"}

InitLoops ==
    \E c \in Comparators, n \in 0 .. LoopLen, pos \in 0 .. LoopLen,
       bound \in 0 .. LoopLen, kind \in Primitives :
        \E vals \in [1 .. n -> Values] :
            LET d == [i \in 1 .. n |-> <<<<i - 1, 0>>, vals[i]>>] IN
            /\ \/ kind = "sift_up" /\ pos < n /\ bound = 0
               \/ kind = "sift_down_range" /\ pos < bound /\ bound <= n
               \/ kind = "sift_down_to_bottom" /\ pos < n /\ bound = n
               \/ kind = "rebuild" /\ pos = n \div 2 /\ bound = 0
            /\ data = d
            /\ keys = FromIterLoop(d, 1, << >>, EmptyMap).keys
            /\ cmp = c
            /\ ret = IF kind = "rebuild" THEN None ELSE Some(At(d, pos))
            /\ op = <<kind, IF kind = "sift_up" THEN "up" ELSE "down", pos, bound, pos>>
            /\ status = "ok"
            /\ shadow = ShadowOf(d, 1, EmptyMap)

\* the hole the state holds
TheHole == [data |-> data, keys |-> keys, elt |-> ret[1], pos |-> op[3], panic |-> FALSE]

\* the loop goes on with the hole h
Continue(h, phase) ==
    /\ data' = h.data
    /\ keys' = h.keys
    /\ ret' = Some(h.elt)
    /\ op' = <<op[1], phase, h.pos, op[4], op[5]>>
    /\ status' = IF h.panic THEN "panic" ELSE "ok"
    /\ UNCHANGED <<cmp, shadow>>

\* the loop is left and the hole dropped
Finish(h) ==
    LET r == HoleDrop(h) IN
    /\ data' = r.data
    /\ keys' = r.keys
    /\ ret' = None
    /\ op' = <<op[1], "done", r.pos, op[4], op[5]>>
    /\ status' = IF r.panic THEN "panic" ELSE "ok"
    /\ UNCHANGED <<cmp, shadow>>

\* one test of `while hole.pos() > 0` (the start ignored) and one iteration
sift_up_iteration_to_root(c, h, start) ==
    IF h.pos > 0
    THEN LET parent == (h.pos - 1) \div 2 IN
         IF compares_le(c, ValOf(h.elt), ValOf(At(h.data, parent)))
         THEN [h |-> h, go |-> FALSE]
         ELSE [h |-> HoleMoveTo(h, parent), go |-> TRUE]
    ELSE [h |-> h, go |-> FALSE]

\* one test of `while hole.pos() > start` and one iteration of sift_up
sift_up_iteration(c, h, start) ==
    IF h.pos > start
    THEN LET parent == (h.pos - 1) \div 2 IN
         IF compares_le(c, ValOf(h.elt), ValOf(At(h.data, parent)))
         THEN [h |-> h, go |-> FALSE]
         ELSE [h |-> HoleMoveTo(h, parent), go |-> TRUE]
    ELSE [h |-> h, go |-> FALSE]

\* one test of `while child <= end.saturating_sub(2)` and one iteration of
\* sift_down_range, or the step after the loop
sift_down_range_iteration(c, h, end) ==
    LET child == 2 * h.pos + 1 IN
    IF child <= SatSub(end, 2)
    THEN LET ch == GreaterChild(c, h, child) IN
         IF compares_ge(c, ValOf(h.elt), ValOf(At(h.data, ch)))
         THEN [h |-> h, go |-> FALSE]
         ELSE [h |-> HoleMoveTo(h, ch), go |-> TRUE]
    ELSE IF child = end - 1 /\ compares_lt(c, ValOf(h.elt), ValOf(At(h.data, child)))
         THEN [h |-> HoleMoveTo(h, child), go |-> FALSE]
         ELSE [h |-> h, go |-> FALSE]

\* the same for sift_down_to_bottom
sift_down_to_bottom_iteration(c, h, end) ==
    LET child == 2 * h.pos + 1 IN
    IF child <= SatSub(end, 2)
    THEN [h |-> HoleMoveTo(h, GreaterChild(c, h, child)), go |-> TRUE]
    ELSE IF child = end - 1
         THEN [h |-> HoleMoveTo(h, child), go |-> FALSE]
         ELSE [h |-> h, go |-> FALSE]

SiftUpStep ==
    /\ status = "ok"
    /\ op[1] \in {"sift_up", "sift_down_to_bottom"}
    /\ op[2] = "up"
    /\ LET start == IF op[1] = "sift_up" THEN op[4] ELSE op[5]
           it == sift_up_iteration(cmp, TheHole, start)
       IN  IF it.go /\ ~it.h.panic THEN Continue(it.h, "up") ELSE Finish(it.h)

SiftDownRangeStep ==
    /\ status = "ok"
    /\ op[1] = "sift_down_range"
    /\ op[2] = "down"
    /\ LET it == sift_down_range_iteration(cmp, TheHole, op[4]) IN
       IF it.go /\ ~it.h.panic THEN Continue(it.h, "down") ELSE Finish(it.h)

\* at the bottom the hole is dropped and sift_up(start, pos) opens it again
SiftDownToBottomStep ==
    /\ status = "ok"
    /\ op[1] = "sift_down_to_bottom"
    /\ op[2] = "down"
    /\ LET it == sift_down_to_bottom_iteration(cmp, TheHole, op[4]) IN
       IF it.h.panic THEN Finish(it.h)
       ELSE IF it.go THEN Continue(it.h, "down")
       ELSE LET r == HoleDrop(it.h) IN
            Continue(HoleNew(r.data, r.keys, r.pos), "up")

\* while n > 0 { n -= 1; sift_down(n) }
RebuildStep ==
    /\ status = "ok"
    /\ op[1] = "rebuild"
    /\ op[2] = "down"
    /\ IF op[3] > 0
       THEN LET r == sift_down(cmp, data, keys, op[3] - 1) IN
            /\ data' = r.data
            /\ keys' = r.keys
            /\ op' = <<"rebuild", "down", op[3] - 1, op[4], op[5]>>
            /\ status' = IF r.panic THEN "panic" ELSE "ok"
       ELSE /\ op' = <<"rebuild", "done", op[3], op[4], op[5]>>
            /\ UNCHANGED <<data, keys, status>>
    /\ UNCHANGED <<ret, cmp, shadow>>

NextLoops == SiftUpStep \/ SiftDownRangeStep \/ SiftDownToBottomStep \/ RebuildStep

\* a loop that can take a step takes it
SpecLoops == InitLoops /\ [][NextLoops]_vars /\ WF_vars(NextLoops)

\* what one step of a loop does to the position of the hole or the counter
LoopProgress ==
    LET start == IF op[1] = "sift_up" THEN op[4] ELSE op[5] IN
    /\ (op[2] = "up" /\ op'[2] = "up")
       => (op'[3] < op[3] /\ op'[3] >= start)
    /\ (op[2] = "up" /\ op'[2] = "done")
       => (op'[3] = op[3] /\ op'[3] >= start)
    /\ (op[1] # "rebuild" /\ op[2] = "down")
       => /\ op'[3] >= op[3]
          /\ op'[3] < op[4]
          /\ op'[2] = "down" => op'[3] > op[3]
    /\ (op[1] = "rebuild" /\ op[2] = "down")
       => IF op[3] > 0 THEN op'[3] = op[3] - 1 /\ op'[2] = "down"
          ELSE op'[2] = "done"
    /\ status' = "ok"

\* C36: every loop ends: an iteration of sift_up moves the hole to a strictly
\* smaller position, never below `start`; an iteration of sift_down_range or
\* sift_down_to_bottom moves it to a strictly greater position below `end`;
\* the counter of rebuild goes down by one from len/2 and stops at 0; and
\* every primitive reaches its end.
C36_Termination ==
    /\ [][LoopProgress]_vars
    /\ (op[1] = "rebuild" => op[3] = Len(data) \div 2)
    /\ <>(op[2] = "done")

\* sift_down_to_bottom went from the root of five entries to a leaf and back
\* up, and ended above the leaf
C36_Witness ==
    /\ status = "ok"
    /\ op[1] = "sift_down_to_bottom"
    /\ op[2] = "done"
    /\ op[5] = 0
    /\ Len(data) = LoopLen
    /\ op[3] \in {1, 2}

(***************************************************************************)
(* Frame of append and of the scoped handles.                              *)
(***************************************************************************)
\* C37: a.append(b) leaves a with the comparator state it had before the call
\* and ordered by it, whichever of the two holds more entries.
C37_AppendKeepsComparator ==
    [][(status = "ok" /\ op'[1] = "append")
          => /\ cmp' = cmp
             /\ status' = "ok" => HeapOrdered(cmp, data')]_vars

(***************************************************************************)
(* A specification for the handles alone: a heap built in bulk from pairs  *)
(* with distinct keys, on which only scoped handles are taken, used and    *)
(* released.                                                               *)
(***************************************************************************)
InitDistinct == \E c \in Comparators, input \in OtherInputs : Construct(c, input)

\* what a caller may do with the &mut K of key_value_mut
KeyWrites == {None} \cup {Some(k) : k \in LookupKeys}

\* let h = peek_mut(); let (k, v) = h.key_value_mut(); *k = nk; *v = w; drop(h)
PeekMutKeyValueMut(nk, w) ==
    /\ status = "ok"
    /\ LET r == peek_mut_key_value_mut(cmp, data, keys, nk, w) IN
       Apply(r, <<"key_value_mut", nk, w>>, ShadowOf(r.data, 1, EmptyMap))

NextScoped ==
    \/ \E key \in LookupKeys, w \in Writes : GetMut(key, w)
    \/ \E w \in Writes : PeekMut(w)
    \/ \E nk \in KeyWrites, w \in Writes : PeekMutKeyValueMut(nk, w)

SpecScoped == InitDistinct /\ [][NextScoped]_vars

\* C38: a peek_mut handle (key_value_mut included) or a get_mut handle changes
\* values only: when it is released, without a panic, the heap stores the
\* same keys, once each, and indexes the same keys as before it was taken.
C38_KeysStable ==
    [][(status = "ok" /\ op'[1] \in {"peek_mut", "get_mut", "key_value_mut"})
          => /\ status' = "ok"
             /\ Len(data') = Len(data)
             /\ IdsOf(data') = IdsOf(data)
             /\ KeysUnique(data) => KeysUnique(data')
             /\ DOMAIN keys' = DOMAIN keys]_vars

====
